---- MODULE Spec2Model ----
(***************************************************************************)
(* File automation: the file organizer (services/file_organizer.py), the   *)
(* unique path resolver and file operations (utils/file_utils.py) and the  *)
(* CSV data cleaner (services/data_cleaner.py).                            *)
(*                                                                         *)
(* A file name is a sequence of one-character strings, so that the stem /  *)
(* suffix split, lower-casing, the decimal suffix and whitespace trimming  *)
(* are computed on the characters as the code computes them.               *)
(***************************************************************************)
EXTENDS Integers, Sequences, FiniteSets, TLC

VARIABLES
    \* ---- one call of FileOperations.get_unique_filename
    rdir,       \* names that exist in the target directory
    rname,      \* the desired filename
    rmax,       \* max_suffix
    rres,       \* the returned name (within the directory)
    rpc,        \* "call" before the call, "done" after it
    \* ---- one call of FileOrganizer.organize_directory(d)
    dkind,      \* what the path d is: "missing", "file" or "dir"
    root,       \* files directly in d: name -> identity of the file
    sub,        \* sub-directories of d: name -> (name -> identity of the file)
    locked,     \* names in d whose move fails (shutil.move raises)
    max_duplicate_suffix,   \* AppConfig.max_duplicate_suffix
    pc,         \* "idle", "loop", "done" (returned) or "raised" (exception left the call)
    todo,       \* entries of the files list not yet visited
    stats,      \* stats: category -> count
    processed_files,
    moves,      \* the "Moved ..." log lines: <<source name, category, target name>>
    result,     \* the returned statistics
    root0,      \* root as it was when the call started
    sub0,       \* sub as it was when the call started
    \* ---- calls of DataCleaner.clean_csv
    disk,       \* CSV path -> what is there
    ret,        \* output path -> statistics returned by the last call writing there
    last        \* <<file_path, output_path>> of the most recent call

rvars == <<rdir, rname, rmax, rres, rpc>>
ovars == <<dkind, root, sub, locked, max_duplicate_suffix, pc, todo, stats,
           processed_files, moves, result, root0, sub0>>
cvars == <<disk, ret, last>>
vars == <<rvars, ovars, cvars>>

----------------------------------------------------------------------------
(* Bounds of the model *)

\* largest max_suffix tried on the resolver alone
MaxSuffixBound == 2
\* largest max_duplicate_suffix the organizer is configured with
MaxDupSuffix == 1
\* largest number of files directly in the organized directory
MaxFiles == 3
\* largest number of rows of a table
MaxRows == 4

----------------------------------------------------------------------------
(* Characters and names *)

Upper == <<"A", "B", "C", "D", "E", "F", "G", "H", "I", "J", "K", "L", "M",
           "N", "O", "P", "Q", "R", "S", "T", "U", "V", "W", "X", "Y", "Z">>
LowerL == <<"a", "b", "c", "d", "e", "f", "g", "h", "i", "j", "k", "l", "m",
            "n", "o", "p", "q", "r", "s", "t", "u", "v", "w", "x", "y", "z">>

\* str.lower() on one character
LowerChar(ch) ==
    IF \E i \in 1..Len(Upper) : Upper[i] = ch
    THEN LowerL[CHOOSE i \in 1..Len(Upper) : Upper[i] = ch]
    ELSE ch

\* str.lower()
lower(s) == [i \in 1..Len(s) |-> LowerChar(s[i])]

\* str.rfind('.'), 1-based; 0 when there is no dot
rfind_dot(s) ==
    IF \E i \in 1..Len(s) : s[i] = "."
    THEN CHOOSE i \in 1..Len(s) : s[i] = "." /\ \A j \in (i+1)..Len(s) : s[j] # "."
    ELSE 0

\* Path.suffix: the last dot and what follows it, unless the dot is the first
\* or the last character of the name
suffix_of(name) ==
    LET i == rfind_dot(name)
    IN IF 1 < i /\ i < Len(name) THEN SubSeq(name, i, Len(name)) ELSE <<>>

\* Path.stem: the name without its suffix
stem_of(name) ==
    LET i == rfind_dot(name)
    IN IF 1 < i /\ i < Len(name) THEN SubSeq(name, 1, i - 1) ELSE name

Digits == <<"0", "1", "2", "3", "4", "5", "6", "7", "8", "9">>

\* str(i) for i >= 0, as the f-string formats it
RECURSIVE int_to_str(_)
int_to_str(i) ==
    IF i < 10 THEN <<Digits[i + 1]>>
    ELSE int_to_str(i \div 10) \o <<Digits[(i % 10) + 1]>>

\* f"{stem}_{i}{suffix}"
numbered(stem, i, suffix) == stem \o <<"_">> \o int_to_str(i) \o suffix

\* f"{stem}_final{suffix}"
final_name(stem, suffix) == stem \o <<"_", "f", "i", "n", "a", "l">> \o suffix

----------------------------------------------------------------------------
(* FileOperations.get_unique_filename *)

\* the loop written as range(1, max_suffix): the last suffix is never tried
first_free_short(exists, stem, suffix, max_suffix) ==
    LET free == {i \in 1..(max_suffix - 1) : numbered(stem, i, suffix) \notin exists}
    IN IF free = {} THEN 0 ELSE CHOOSE i \in free : \A j \in free : i <= j

\* the for loop: the first i of range(1, max_suffix + 1) whose candidate does
\* not exist, 0 when the loop runs to its end
first_free(exists, stem, suffix, max_suffix) ==
    LET free == {i \in 1..max_suffix : numbered(stem, i, suffix) \notin exists}
    IN IF free = {} THEN 0 ELSE CHOOSE i \in free : \A j \in free : i <= j

\* the name returned within `directory`, whose existing entries are `exists`
get_unique_filename(exists, filename, max_suffix) ==
    IF filename \notin exists THEN filename
    ELSE LET stem == stem_of(filename)
             suffix == suffix_of(filename)
             i == first_free(exists, stem, suffix, max_suffix)
         IN IF i # 0 THEN numbered(stem, i, suffix)
            ELSE final_name(stem, suffix)

----------------------------------------------------------------------------
(* AppConfig.get_default and the extension index *)

file_extensions ==
    << <<<<"d", "o", "c", "u", "m", "e", "n", "t", "s">>,
         << <<".", "p", "d", "f">>,
            <<".", "d", "o", "c">>,
            <<".", "d", "o", "c", "x">>,
            <<".", "t", "x", "t">>,
            <<".", "o", "d", "t">> >> >>,
       <<<<"i", "m", "a", "g", "e", "s">>,
         << <<".", "j", "p", "g">>,
            <<".", "j", "p", "e", "g">>,
            <<".", "p", "n", "g">>,
            <<".", "g", "i", "f">>,
            <<".", "b", "m", "p">>,
            <<".", "s", "v", "g">> >> >>,
       <<<<"v", "i", "d", "e", "o", "s">>,
         << <<".", "m", "p", "4">>,
            <<".", "a", "v", "i">>,
            <<".", "m", "k", "v">>,
            <<".", "m", "o", "v">>,
            <<".", "f", "l", "v">> >> >>,
       <<<<"a", "u", "d", "i", "o">>,
         << <<".", "m", "p", "3">>,
            <<".", "w", "a", "v">>,
            <<".", "f", "l", "a", "c">>,
            <<".", "a", "a", "c">>,
            <<".", "o", "g", "g">> >> >>,
       <<<<"a", "r", "c", "h", "i", "v", "e", "s">>,
         << <<".", "z", "i", "p">>,
            <<".", "r", "a", "r">>,
            <<".", "7", "z">>,
            <<".", "t", "a", "r">>,
            <<".", "g", "z">> >> >>,
       <<<<"s", "p", "r", "e", "a", "d", "s", "h", "e", "e", "t", "s">>,
         << <<".", "x", "l", "s">>,
            <<".", "x", "l", "s", "x">>,
            <<".", "c", "s", "v">> >> >>,
       <<<<"c", "o", "d", "e">>,
         << <<".", "p", "y">>,
            <<".", "j", "a", "v", "a">>,
            <<".", "j", "s">>,
            <<".", "g", "o">>,
            <<".", "c", "p", "p">>,
            <<".", "c">>,
            <<".", "h">> >> >> >>


other == <<"o", "t", "h", "e", "r">>

\* the (category index, extension index) pairs in the order the two loops of
\* _build_extension_map visit them
ext_positions ==
    UNION {{<<ci, ei>> : ei \in 1..Len(file_extensions[ci][2])} :
             ci \in 1..Len(file_extensions)}

\* _build_extension_map: extension_map[ext.lower()] = category, a later
\* assignment replacing an earlier one
build_extension_map ==
    LET keys == {lower(file_extensions[p[1]][2][p[2]]) : p \in ext_positions}
        at(k) == {p \in ext_positions : lower(file_extensions[p[1]][2][p[2]]) = k}
        lastp(k) == CHOOSE p \in at(k) :
                       \A q \in at(k) : q[1] < p[1] \/ (q[1] = p[1] /\ q[2] <= p[2])
    IN [k \in keys |-> file_extensions[lastp(k)[1]][1]]

extension_map == build_extension_map

\* the lookup without .lower() on the file's suffix
get_file_category_cased(name) ==
    LET extension == suffix_of(name)
    IN IF extension \in DOMAIN extension_map THEN extension_map[extension] ELSE other

\* _get_file_category
get_file_category(name) ==
    LET extension == lower(suffix_of(name))
    IN IF extension \in DOMAIN extension_map THEN extension_map[extension] ELSE other

----------------------------------------------------------------------------
(* The directory tree under d.  Only plain files are held in the category   *)
(* sub-directories; a file keeps its identity when it is moved.             *)

EmptyDir == [n \in {} |-> <<>>]
EmptyStats == [c \in {} |-> 0]

Without(dir, n) == [m \in (DOMAIN dir) \ {n} |-> dir[m]]
With(dir, n, v) == [m \in (DOMAIN dir) \cup {n} |-> IF m = n THEN v ELSE dir[m]]

\* Path.mkdir(parents=True, exist_ok=True) raises FileExistsError when the
\* path exists and is not a directory
ensure_directory_raises(files, name) == name \in DOMAIN files

\* FileOperations.ensure_directory: the directory exists afterwards
ensure_directory(dirs, name) ==
    IF name \in DOMAIN dirs THEN dirs ELSE With(dirs, name, EmptyDir)

\* FileOperations.get_files_in_directory(directory, recursive=False)
get_files_in_directory(kind, files) ==
    IF kind # "dir" THEN {} ELSE DOMAIN files

\* FileOperations.move_file returns False when shutil.move raises
move_file_ok(source) == source \notin locked

----------------------------------------------------------------------------
(* FileOrganizer.organize_directory *)

\* the call made to create the directory first when it is missing
OrganizeStartMkdir ==
    /\ pc = "idle"
    /\ dkind' = IF dkind = "missing" THEN "dir" ELSE dkind
    /\ IF dkind' # "dir"
       THEN /\ pc' = "done"
            /\ result' = EmptyStats
            /\ UNCHANGED <<todo, stats, processed_files>>
       ELSE /\ pc' = "loop"
            /\ todo' = get_files_in_directory(dkind', root)
            /\ stats' = EmptyStats
            /\ processed_files' = {}
            /\ UNCHANGED result
    /\ UNCHANGED <<root, sub, locked, max_duplicate_suffix, moves, root0, sub0>>
    /\ UNCHANGED <<rvars, cvars>>

\* the precondition check, the enumeration of the files and the empty stats
OrganizeStart ==
    /\ pc = "idle"
    /\ IF dkind # "dir"
       THEN /\ pc' = "done"
            /\ result' = EmptyStats
            /\ UNCHANGED <<todo, stats, processed_files>>
       ELSE /\ pc' = "loop"
            /\ todo' = get_files_in_directory(dkind, root)
            /\ stats' = EmptyStats
            /\ processed_files' = {}
            /\ UNCHANGED result
    /\ UNCHANGED <<dkind, root, sub, locked, max_duplicate_suffix, moves, root0, sub0>>
    /\ UNCHANGED <<rvars, cvars>>

\* stats[category] = stats.get(category, 0) + 1
count_one(st, category) ==
    With(st, category, (IF category \in DOMAIN st THEN st[category] ELSE 0) + 1)

\* one iteration of the for loop, on the entry file_path of the files list
\* (the list is visited in the order iterdir() gave, which is arbitrary)
ProcessFile(file_path) ==
    /\ pc = "loop"
    /\ file_path \in todo
    /\ todo' = todo \ {file_path}
    /\ LET category == get_file_category(file_path)
           dirs == ensure_directory(sub, category)
           target == get_unique_filename(DOMAIN dirs[category], file_path,
                                         max_duplicate_suffix)
       IN IF file_path \in processed_files \/ category = other
          THEN UNCHANGED <<pc, root, sub, stats, processed_files, moves>>
          ELSE IF ensure_directory_raises(root, category)
          THEN /\ pc' = "raised"
               /\ UNCHANGED <<root, sub, stats, processed_files, moves>>
          ELSE IF move_file_ok(file_path)
          THEN /\ sub' = [dirs EXCEPT ![category] = With(@, target, root[file_path])]
               /\ root' = Without(root, file_path)
               /\ stats' = count_one(stats, category)
               /\ processed_files' = processed_files \cup {file_path}
               /\ moves' = Append(moves, <<file_path, category, target>>)
               /\ UNCHANGED pc
          ELSE /\ sub' = dirs
               /\ UNCHANGED <<pc, root, stats, processed_files, moves>>
    /\ UNCHANGED <<dkind, locked, max_duplicate_suffix, result, root0, sub0>>
    /\ UNCHANGED <<rvars, cvars>>

\* the end of the loop: _log_statistics(stats); return stats
OrganizeReturn ==
    /\ pc = "loop"
    /\ todo = {}
    /\ pc' = "done"
    /\ result' = stats
    /\ UNCHANGED <<dkind, root, sub, locked, max_duplicate_suffix, todo, stats,
                   processed_files, moves, root0, sub0>>
    /\ UNCHANGED <<rvars, cvars>>

----------------------------------------------------------------------------
(* DataCleaner: tables.  A cell is absent (NaN), a number or a text.  A     *)
(* number is held as its count of halves, so that the median of two whole   *)
(* numbers is exact: the cell 3 is held as 6, the median 1.5 as 3.          *)

NaN == [kind |-> "nan", num |-> 0, str |-> <<>>]
Num(halves) == [kind |-> "num", num |-> halves, str |-> <<>>]
Str(chars) == [kind |-> "str", num |-> 0, str |-> chars]
\* a True / False cell
Bool(b) == [kind |-> "bool", num |-> (IF b THEN 1 ELSE 0), str |-> <<>>]

isnull(cell) == cell.kind = "nan"

\* the characters in code point order, for the comparison of texts
CodePoints == <<" ", ".">> \o Digits \o Upper \o <<"_">> \o LowerL
Ord(ch) == CHOOSE i \in 1..Len(CodePoints) : CodePoints[i] = ch

\* a < b for str values: the first differing character decides, a proper
\* prefix is smaller
str_less(a, b) ==
    \E k \in 1..(Len(b)) :
        /\ k <= Len(a) + 1
        /\ \A j \in 1..(k - 1) : a[j] = b[j]
        /\ (k = Len(a) + 1 \/ Ord(a[k]) < Ord(b[k]))

IsSpace(ch) == ch = " "

\* str.strip()
RECURSIVE lstrip(_)
lstrip(chars) ==
    IF chars # <<>> /\ IsSpace(Head(chars)) THEN lstrip(Tail(chars)) ELSE chars
RECURSIVE rstrip(_)
rstrip(chars) ==
    IF chars # <<>> /\ IsSpace(chars[Len(chars)])
    THEN rstrip(SubSeq(chars, 1, Len(chars) - 1)) ELSE chars
strip(chars) == rstrip(lstrip(chars))

\* a DataFrame: the dtype of each column and the rows
Frame(dtypes, rows) == [dtypes |-> dtypes, rows |-> rows]
ncols(df) == Len(df.dtypes)
column(df, c) == [i \in 1..Len(df.rows) |-> df.rows[i][c]]

is_numeric_dtype(dtype) == dtype \in {"int64", "float64", "bool"}

\* what is at a CSV path: nothing, a directory, a file without any column
\* (read_csv raises EmptyDataError), or a file with ncols columns and the
\* fields of its rows, an empty field being NaN
Missing == [kind |-> "missing", ncols |-> 0, fields |-> <<>>]
NotFile == [kind |-> "dir", ncols |-> 0, fields |-> <<>>]
EmptyFile == [kind |-> "empty", ncols |-> 0, fields |-> <<>>]
CsvFile(n, fields) == [kind |-> "csv", ncols |-> n, fields |-> fields]

\* pd.read_csv: a column with a text field is object; a column of True /
\* False is bool, and object when it also has empty fields; a column of
\* numbers is int64; a column of numbers and empty fields, or of empty
\* fields only, is float64
read_csv(file) ==
    LET has(c, kind) == \E i \in 1..Len(file.fields) : file.fields[i][c].kind = kind
        dtype(c) ==
            IF has(c, "str") THEN "object"
            ELSE IF has(c, "bool") THEN (IF has(c, "nan") THEN "object" ELSE "bool")
            ELSE IF has(c, "nan") THEN "float64" ELSE "int64"
    IN Frame([c \in 1..file.ncols |-> dtype(c)], file.fields)

\* DataFrame.to_csv(index=False): NaN is written as an empty field and so is
\* the empty text
to_csv(df) ==
    CsvFile(ncols(df),
            [i \in 1..Len(df.rows) |->
               [c \in 1..ncols(df) |->
                  IF df.rows[i][c] = Str(<<>>) THEN NaN ELSE df.rows[i][c]]])

\* int(df.isnull().sum().sum())
missing_count(df) ==
    Cardinality({ic \in (1..Len(df.rows)) \X (1..ncols(df)) :
                    isnull(df.rows[ic[1]][ic[2]])})

\* df.duplicated(): a row is marked when an earlier row equals it, NaN
\* equal to NaN
duplicated(df) ==
    {i \in 1..Len(df.rows) : \E j \in 1..(i - 1) : df.rows[j] = df.rows[i]}

\* df.drop_duplicates(): keep='first'
RECURSIVE drop_seen(_, _)
drop_seen(rows, seen) ==
    IF rows = <<>> THEN <<>>
    ELSE IF Head(rows) \in seen THEN drop_seen(Tail(rows), seen)
    ELSE <<Head(rows)>> \o drop_seen(Tail(rows), seen \cup {Head(rows)})

\* keep='last' in place of keep='first'
RECURSIVE drop_keep_last(_)
drop_keep_last(rows) ==
    IF rows = <<>> THEN <<>>
    ELSE IF \E j \in 2..Len(rows) : rows[j] = Head(rows)
    THEN drop_keep_last(Tail(rows))
    ELSE <<Head(rows)>> \o drop_keep_last(Tail(rows))

drop_duplicates_last(df) == Frame(df.dtypes, drop_keep_last(df.rows))

drop_duplicates(df) == Frame(df.dtypes, drop_seen(df.rows, {}))

\* _remove_duplicates
remove_duplicates(df) ==
    IF Cardinality(duplicated(df)) > 0 THEN drop_duplicates(df) ELSE df

\* the present cells of a column, in column order
RECURSIVE present(_)
present(col) ==
    IF col = <<>> THEN <<>>
    ELSE IF isnull(Head(col)) THEN present(Tail(col))
    ELSE <<Head(col)>> \o present(Tail(col))

\* the median taken as the lower of the two middle values for an even count
median_low(col) ==
    LET vals == SortSeq(present(col), LAMBDA a, b : a.num < b.num)
        n == Len(vals)
    IN IF n = 0 THEN NaN ELSE vals[(n + 1) \div 2]

\* Series.median(): NaN skipped; the middle value of the sorted values, the
\* mean of the two middle values for an even count, NaN for none
median(col) ==
    LET vals == SortSeq(present(col), LAMBDA a, b : a.num < b.num)
        n == Len(vals)
    IN IF n = 0 THEN NaN
       ELSE IF n % 2 = 1 THEN vals[(n + 1) \div 2]
       ELSE Num((vals[n \div 2].num + vals[(n \div 2) + 1].num) \div 2)

\* the values tied for the highest count
most_frequent(col) ==
    LET vals == {col[i] : i \in {j \in 1..Len(col) : ~isnull(col[j])}}
        count(v) == Cardinality({i \in 1..Len(col) : col[i] = v})
    IN {v \in vals : \A w \in vals : count(w) <= count(v)}

\* the tie broken by the position in the column, not by the value
mode_first_seen(col) ==
    LET top == most_frequent(col)
        firstAt(v) == CHOOSE i \in 1..Len(col) :
                         col[i] = v /\ \A j \in 1..(i - 1) : col[j] # v
    IN IF top = {} THEN <<>>
       ELSE <<CHOOSE v \in top : \A w \in top : firstAt(v) <= firstAt(w)>>

\* the order of the values of an object column: False < True, texts by
\* their characters
cell_less(a, b) ==
    IF a.kind = "bool" /\ b.kind = "bool" THEN a.num < b.num
    ELSE str_less(a.str, b.str)

\* Series.mode(): NaN dropped; the most frequent values, sorted ascending
mode(col) ==
    LET top == most_frequent(col)
    IN [i \in 1..Cardinality(top) |->
          CHOOSE v \in top : Cardinality({w \in top : cell_less(w, v)}) = i - 1]

\* Series.fillna(value); fillna(NaN) leaves the column as it is
fillna(col, value) ==
    [i \in 1..Len(col) |-> IF isnull(col[i]) THEN value ELSE col[i]]

Unknown == <<"U", "n", "k", "n", "o", "w", "n">>

\* the body of the loop of _handle_missing_values for one column
fill_column(dtype, col) ==
    IF ~(\E i \in 1..Len(col) : isnull(col[i])) THEN col
    ELSE IF is_numeric_dtype(dtype) THEN fillna(col, median(col))
    ELSE LET mode_values == mode(col)
             fill_value == IF Len(mode_values) > 0 THEN mode_values[1]
                           ELSE Str(Unknown)
         IN fillna(col, fill_value)

\* _handle_missing_values
handle_missing_values(df) ==
    IF missing_count(df) = 0 THEN df
    ELSE Frame(df.dtypes,
               [i \in 1..Len(df.rows) |->
                  [c \in 1..ncols(df) |-> fill_column(df.dtypes[c], column(df, c))[i]]])

\* Series.str.strip() on one cell: a cell that is not a str becomes NaN
str_strip(cell) == IF cell.kind = "str" THEN Str(strip(cell.str)) ELSE NaN

\* _standardize_data_types
standardize_data_types(df) ==
    Frame(df.dtypes,
          [i \in 1..Len(df.rows) |->
             [c \in 1..ncols(df) |->
                IF df.dtypes[c] = "object" THEN str_strip(df.rows[i][c])
                ELSE df.rows[i][c]]])

\* Series.str raises AttributeError ("Can only use .str accessor with string
\* values") on an object column whose present values are all True / False
str_accessor_raises(col) ==
    /\ \E i \in 1..Len(col) : ~isnull(col[i])
    /\ \A i \in 1..Len(col) : isnull(col[i]) \/ col[i].kind = "bool"

\* _standardize_data_types raises on df
standardize_raises(df) ==
    \E c \in 1..ncols(df) :
        df.dtypes[c] = "object" /\ str_accessor_raises(column(df, c))

\* lines 54-56 of clean_csv: the three transformation steps
transform(df) ==
    standardize_data_types(handle_missing_values(remove_duplicates(df)))

\* an exception is raised inside the try block before the output is written:
\* by read_csv on a file without columns, or by the last transformation step
try_raises(file) ==
    \/ file.kind = "empty"
    \/ /\ file.kind = "csv"
       /\ standardize_raises(handle_missing_values(remove_duplicates(read_csv(file))))

\* the stats dictionary of a call that reached its return
clean_stats(df, df_cleaned) ==
    [ initial_rows |-> Len(df.rows),
      initial_columns |-> ncols(df),
      missing_values_found |-> missing_count(df),
      duplicate_rows_found |-> Cardinality(duplicated(df)),
      final_rows |-> Len(df_cleaned.rows),
      final_columns |-> ncols(df_cleaned),
      rows_removed |-> Len(df.rows) - Len(df_cleaned.rows) ]

\* clean_csv with the table written as soon as the missing values are handled
\* and written again once the texts are trimmed
CleanCsvEarlyWrite(file_path, output_path) ==
    /\ last' = <<file_path, output_path>>
    /\ IF disk[file_path].kind \in {"missing", "dir", "empty"}
       THEN /\ ret' = [ret EXCEPT ![output_path] =
                          [called |-> TRUE, stats |-> EmptyStats]]
            /\ UNCHANGED disk
       ELSE LET df == read_csv(disk[file_path])
                df_filled == handle_missing_values(remove_duplicates(df))
            IN IF standardize_raises(df_filled)
               THEN /\ disk' = [disk EXCEPT ![output_path] = to_csv(df_filled)]
                    /\ ret' = [ret EXCEPT ![output_path] =
                                 [called |-> TRUE, stats |-> EmptyStats]]
               ELSE /\ disk' = [disk EXCEPT ![output_path] = to_csv(transform(df))]
                    /\ ret' = [ret EXCEPT ![output_path] =
                                 [called |-> TRUE,
                                  stats |-> clean_stats(df, transform(df))]]
    /\ UNCHANGED <<rvars, ovars>>

\* clean_csv(file_path, output_path): {} when the input is missing or not a
\* file (lines 36-38) or when an exception is caught (lines 70-72), the
\* output untouched; otherwise the cleaned table is written and the
\* statistics returned
CleanCsv(file_path, output_path) ==
    /\ last' = <<file_path, output_path>>
    /\ IF disk[file_path].kind \in {"missing", "dir"} \/ try_raises(disk[file_path])
       THEN /\ ret' = [ret EXCEPT ![output_path] =
                          [called |-> TRUE, stats |-> EmptyStats]]
            /\ UNCHANGED disk
       ELSE LET df == read_csv(disk[file_path])
                df_cleaned == transform(df)
            IN /\ disk' = [disk EXCEPT ![output_path] = to_csv(df_cleaned)]
               /\ ret' = [ret EXCEPT ![output_path] =
                            [called |-> TRUE, stats |-> clean_stats(df, df_cleaned)]]
    /\ UNCHANGED <<rvars, ovars>>

----------------------------------------------------------------------------
(* Initial directory trees *)

code == <<"c", "o", "d", "e">>
archives == <<"a", "r", "c", "h", "i", "v", "e", "s">>

\* names a file directly in d may have: a.c, A.C, a_final.c, a.gz, a.Q (an
\* upper-case unmapped extension), a (no extension) and code (a plain file
\* named like a category)
RootNames ==
    { <<"a", ".", "c">>, <<"A", ".", "C">>,
      final_name(<<"a">>, <<".", "c">>),
      <<"a", ".", "g", "z">>,
      <<"a", ".", "Q">>,
      <<"a">>, code }

\* names a file already in d/code may have: a.c, a_1.c .. a_k.c, a_final.c
CodeNames ==
    { <<"a", ".", "c">>, final_name(<<"a">>, <<".", "c">>) }
    \cup { numbered(<<"a">>, i, <<".", "c">>) : i \in 1..MaxDupSuffix }

\* a directory holding the files `names`, each with its own identity
DirOf(path, names) == [n \in names |-> <<path, n>>]

SmallSubsets(S, k) == {T \in SUBSET S : Cardinality(T) <= k}

InitResolverIdle ==
    /\ rdir = {} /\ rname = <<>> /\ rmax = 0 /\ rres = <<>> /\ rpc = "off"

InitOrganizerIdle ==
    /\ dkind = "missing" /\ root = EmptyDir /\ sub = EmptyDir /\ locked = {}
    /\ max_duplicate_suffix = 0 /\ pc = "off" /\ todo = {} /\ stats = EmptyStats
    /\ processed_files = {} /\ moves = <<>> /\ result = EmptyStats
    /\ root0 = EmptyDir /\ sub0 = EmptyDir

InitCleanerIdle ==
    /\ disk = <<>> /\ ret = <<>> /\ last = <<>>

\* d is missing, a plain file, or a directory holding up to MaxFiles files,
\* with or without the sub-directories code (holding any of CodeNames) and
\* archives (holding a.gz); at most one file of d cannot be moved
InitOrganizer ==
    /\ dkind \in {"missing", "file", "dir"}
    /\ \E names \in SmallSubsets(RootNames, MaxFiles) :
          /\ dkind # "dir" => names = {}
          /\ root = DirOf(<<>>, names)
    /\ \E cs \in SUBSET {code, archives} :
       \E inCode \in SUBSET CodeNames :
          /\ dkind # "dir" => cs = {}
          /\ cs \cap DOMAIN root = {}
          /\ code \notin cs => inCode = {}
          /\ sub = [c \in cs |-> IF c = code THEN DirOf(code, inCode)
                                 ELSE DirOf(archives, {<<"a", ".", "g", "z">>})]
    /\ locked \in SmallSubsets({n \in DOMAIN root : suffix_of(n) # <<>>}, 1)
    /\ max_duplicate_suffix \in 0..MaxDupSuffix
    /\ pc = "idle"
    /\ todo = {} /\ stats = EmptyStats /\ processed_files = {}
    /\ moves = <<>> /\ result = EmptyStats
    /\ root0 = root /\ sub0 = sub

\* names that may exist in the resolver's directory: a.c, a_1.c .. a_k.c,
\* a_final.c, the same without extension, and the hidden file .c
ResolverNames ==
    { <<"a", ".", "c">>, final_name(<<"a">>, <<".", "c">>),
      <<"a">>, numbered(<<"a">>, 1, <<>>), final_name(<<"a">>, <<>>),
      <<".", "c">>, numbered(<<".", "c">>, 1, <<>>) }
    \cup { numbered(<<"a">>, i, <<".", "c">>) : i \in 1..(MaxSuffixBound + 1) }

\* desired filenames
ResolverQueries == { <<"a", ".", "c">>, <<"a">>, <<".", "c">> }

InitResolver ==
    /\ rdir \in SUBSET ResolverNames
    /\ rname \in ResolverQueries
    /\ rmax \in 0..MaxSuffixBound
    /\ rres = <<>>
    /\ rpc = "call"

\* FileOperations.get_unique_filename(directory, filename, max_suffix): only
\* exists() is called on the directory
Resolve ==
    /\ rpc = "call"
    /\ rres' = get_unique_filename(rdir, rname, rmax)
    /\ rpc' = "done"
    /\ UNCHANGED <<rdir, rname, rmax>>
    /\ UNCHANGED <<ovars, cvars>>

InitResolve == InitResolver /\ InitOrganizerIdle /\ InitCleanerIdle

NextResolve == Resolve

SpecResolve == InitResolve /\ [][NextResolve]_vars

\* the rows a dirty table is made of: (x, 1), ("x ", 1), (-, 1), (y, -),
\* (y, 3), (-, -)
RowPool ==
    { <<Str(<<"x">>), Num(2)>>, <<Str(<<"x", " ">>), Num(2)>>, <<NaN, Num(2)>>,
      <<Str(<<"y">>), NaN>>, <<Str(<<"y">>), Num(6)>>, <<NaN, NaN>> }

Tables == UNION {[1..n -> RowPool] : n \in 0..MaxRows}

\* the rows of a table with a True / False column: (True, 1), (False, 1),
\* (-, 1)
BoolRowPool ==
    { <<Bool(TRUE), Num(2)>>, <<Bool(FALSE), Num(2)>>, <<NaN, Num(2)>> }

BoolTables == UNION {[1..n -> BoolRowPool] : n \in 0..MaxRows}

\* a file already at the output path before the call
StaleFile == CsvFile(1, << <<Str(<<"y">>)>> >>)

\* the dirty file is missing, a directory, a file without columns or a table;
\* the output path is free or already holds a file
InitCleaner ==
    /\ \E d \in {Missing, NotFile, EmptyFile}
                \cup {CsvFile(2, t) : t \in Tables \cup BoolTables} :
       \E o \in {Missing, StaleFile} :
          disk = [p \in {"dirty", "cleaned", "cleaned2"} |->
                     IF p = "dirty" THEN d ELSE IF p = "cleaned" THEN o ELSE Missing]
    /\ ret = [p \in {"cleaned", "cleaned2"} |-> [called |-> FALSE, stats |-> EmptyStats]]
    /\ last = <<>>

InitClean == InitCleaner /\ InitResolverIdle /\ InitOrganizerIdle

\* the calls made: the dirty file is cleaned, and the cleaned file again
CleanDirty == CleanCsv("dirty", "cleaned")
CleanAgain == CleanCsv("cleaned", "cleaned2")

NextClean == CleanDirty \/ CleanAgain

SpecClean == InitClean /\ [][NextClean]_vars

Init == InitOrganizer /\ InitResolverIdle /\ InitCleanerIdle

\* the loop takes the next entry of the files list
OrganizeStep == \E file_path \in todo : ProcessFile(file_path)

Next ==
    \/ OrganizeStart
    \/ OrganizeStep
    \/ OrganizeReturn

Spec == Init /\ [][Next]_vars


----------------------------------------------------------------------------
(* The unique path resolver *)

\* the numeric suffixes i for which stem_i.ext exists
SuffixesPresent(exists, stem, ext) ==
    {i \in 1..(MaxSuffixBound + 2) : numbered(stem, i, ext) \in exists}

\* what the contract promises for the desired name stem.ext
ResolveExpected(exists, stem, ext, max_attempts) ==
    LET n == Cardinality(SuffixesPresent(exists, stem, ext))
    IN IF stem \o ext \notin exists THEN stem \o ext
       ELSE IF n + 1 <= max_attempts THEN numbered(stem, n + 1, ext)
       ELSE final_name(stem, ext)

\* the directory holds exactly stem_1.ext .. stem_n.ext for some n >= 0
ContiguousSuffixes(exists, stem, ext) ==
    SuffixesPresent(exists, stem, ext)
        = 1..Cardinality(SuffixesPresent(exists, stem, ext))

\* C1: with stem.ext and exactly stem_1.ext .. stem_n.ext present, the call
\* returns stem_(n+1).ext when n+1 <= max_attempts and stem_final.ext
\* otherwise; with stem.ext absent it returns stem.ext; the directory is left
\* as it was.  (a.c splits into a and .c; a and .c have no extension.)
C1_ResolveContract ==
    [][ (rpc = "call" /\ rpc' = "done") =>
          /\ rdir' = rdir
          /\ \A q \in { << <<"a">>, <<".", "c">> >>, << <<"a">>, <<>> >>,
                        << <<".", "c">>, <<>> >> } :
                (rname = q[1] \o q[2] /\ ContiguousSuffixes(rdir, q[1], q[2]))
                    => rres' = ResolveExpected(rdir, q[1], q[2], rmax) ]_vars

\* a.c and a_1.c exist, max_attempts is 2: a_2.c is returned
C1_Witness ==
    /\ rpc = "done"
    /\ rname = <<"a", ".", "c">>
    /\ rmax = 2
    /\ SuffixesPresent(rdir, <<"a">>, <<".", "c">>) = {1}
    /\ rname \in rdir
    /\ rres = <<"a", "_", "2", ".", "c">>

\* C2: the returned path never exists in the directory at the time of the
\* call, whatever the directory holds
C2_NeverReturnsExisting ==
    rpc = "done" => rres \notin rdir

----------------------------------------------------------------------------
(* The file organizer *)

\* the number of directory entries that are files under d
CountUnder(files, dirs) ==
    Cardinality({<<<<>>, n>> : n \in DOMAIN files}
                \cup UNION {{<<c, n>> : n \in DOMAIN dirs[c]} : c \in DOMAIN dirs})

\* the names of the model's files by their expected classification
MappedNames ==
    { <<"a", ".", "c">>, <<"A", ".", "C">>, <<"a", "_", "f", "i", "n", "a", "l", ".", "c">>,
      <<"a", ".", "g", "z">> }
OtherNames == { <<"a", ".", "Q">>, <<"a">>, code }
ExpectedCategory(n) ==
    IF n = <<"a", ".", "g", "z">> THEN archives
    ELSE IF n \in MappedNames THEN code ELSE other

\* C3: after organize_directory(d) has returned on a valid directory, every
\* classified file (whose move did not fail) is under d/c at the name the
\* resolver returned for it, no two moved files share a destination, no file
\* already in a category subfolder was overwritten and the number of files
\* under d is what it was
C3_MovedWithoutLoss ==
    (pc = "done" /\ dkind = "dir") =>
        /\ \A f \in (DOMAIN root0) \ locked :
              ExpectedCategory(f) # other =>
                 \E i \in 1..Len(moves) :
                    /\ moves[i][1] = f
                    /\ moves[i][2] = ExpectedCategory(f)
                    /\ moves[i][2] \in DOMAIN sub
                    /\ moves[i][3] \in DOMAIN sub[moves[i][2]]
                    /\ sub[moves[i][2]][moves[i][3]] = root0[f]
        /\ \A i, j \in 1..Len(moves) :
              i # j => <<moves[i][2], moves[i][3]>> # <<moves[j][2], moves[j][3]>>
        /\ \A c \in DOMAIN sub0 : \A n \in DOMAIN sub0[c] :
              n \in DOMAIN sub[c] /\ sub[c][n] = sub0[c][n]
        /\ CountUnder(root, sub) = CountUnder(root0, sub0)

\* C4: a file of category "other" (unmapped, upper-case unmapped or no
\* extension) stays in d as it was, no subfolder "other" appears, no
\* subfolder is created except for a mapped file's category, "other" is never
\* counted; and once the call has returned, A.C has been moved as a.c is
C4_OtherUntouched ==
    /\ \A f \in (DOMAIN root0) \cap OtherNames :
          f \in DOMAIN root /\ root[f] = root0[f]
    /\ other \notin DOMAIN sub
    /\ (DOMAIN sub) \ (DOMAIN sub0)
          \subseteq {ExpectedCategory(f) : f \in (DOMAIN root0) \cap MappedNames}
    /\ other \notin DOMAIN stats
    /\ other \notin DOMAIN result
    /\ \A i \in 1..Len(moves) : moves[i][1] \in MappedNames
    /\ pc = "done" =>
          \A f \in ((DOMAIN root0) \cap MappedNames) \ locked :
             /\ f \notin DOMAIN root
             /\ ExpectedCategory(f) \in DOMAIN result

\* a.Q was left in place while A.C was moved into code
C4_Witness ==
    /\ pc = "done"
    /\ <<"a", ".", "Q">> \in DOMAIN root
    /\ <<"A", ".", "C">> \in DOMAIN root0
    /\ \E i \in 1..Len(moves) : moves[i][1] = <<"A", ".", "C">> /\ moves[i][2] = code

\* the number of files this call moved into category c
MovedInto(c) == Cardinality({i \in 1..Len(moves) : moves[i][2] = c})

\* C5: no failure of one file lets an exception leave organize_directory;
\* the call returns, having visited every file, and the statistics give for
\* each category the number of files this call moved into it
C5_FailureIsolated ==
    /\ pc # "raised"
    /\ (pc = "done" /\ dkind = "dir") =>
          /\ todo = {}
          /\ \A c \in DOMAIN result : result[c] = MovedInto(c)
          /\ \A i \in 1..Len(moves) : moves[i][2] \in DOMAIN result

\* C6: on a path that is missing or not a directory the call returns the
\* empty statistics and changes nothing in the file system, enumerates nothing
C6_InvalidPathNoEffect ==
    [][ dkind # "dir" =>
          /\ dkind' = dkind /\ root' = root /\ sub' = sub
          /\ todo' = {} /\ moves' = <<>>
          /\ pc' # "loop" /\ pc' # "raised"
          /\ (pc' = "done" => DOMAIN result' = {}) ]_vars

\* the call has returned on a missing path
C6_Witness ==
    pc = "done" /\ dkind = "missing" /\ DOMAIN result = {}

\* C7: the returned statistics are empty exactly when the call failed, so a
\* call on a valid directory returns a populated record
C7_EmptyIffFailed ==
    pc = "done" => (DOMAIN result = {} <=> dkind # "dir")

----------------------------------------------------------------------------
(* The data cleaner *)

\* the first pass has returned its statistics and written the cleaned file
FirstPassDone ==
    ret["cleaned"].called /\ DOMAIN ret["cleaned"].stats # {}

\* C8: cleaning the table that clean produced reports no duplicate row, no
\* missing value and no removed row
C8_SecondPassNoOp ==
    (last = <<"cleaned", "cleaned2">> /\ FirstPassDone) =>
        /\ DOMAIN ret["cleaned2"].stats # {}
        /\ ret["cleaned2"].stats.duplicate_rows_found = 0
        /\ ret["cleaned2"].stats.missing_values_found = 0
        /\ ret["cleaned2"].stats.rows_removed = 0

\* the rows that have no equal row before them, in their order
FirstOccurrences(rows) ==
    LET idx == {i \in 1..Len(rows) : \A j \in 1..(i - 1) : rows[j] # rows[i]}
    IN [k \in 1..Cardinality(idx) |->
          rows[CHOOSE i \in idx : Cardinality({j \in idx : j < i}) = k - 1]]

\* a present cell as the cleaned file holds it: a text trimmed, a number as is
Trimmed(cell) == IF cell.kind = "str" THEN Str(strip(cell.str)) ELSE cell

\* C9: the cleaned file holds, in order, the first occurrence of each
\* distinct row of the input (present cells kept, texts trimmed); no other
\* step removes a row: final_rows = initial_rows - duplicate_rows_found,
\* rows_removed = duplicate_rows_found, final_columns = initial_columns
C9_DedupKeepsFirst ==
    FirstPassDone =>
        LET rows == disk["dirty"].fields
            kept == FirstOccurrences(rows)
            out == disk["cleaned"].fields
            st == ret["cleaned"].stats
        IN /\ Len(out) = Len(kept)
           /\ \A k \in 1..Len(kept) : \A c \in 1..disk["dirty"].ncols :
                 ~isnull(kept[k][c]) => out[k][c] = Trimmed(kept[k][c])
           /\ st.initial_rows = Len(rows)
           /\ st.final_rows = Len(out)
           /\ st.duplicate_rows_found = Len(rows) - Len(kept)
           /\ st.final_rows = st.initial_rows - st.duplicate_rows_found
           /\ st.rows_removed = st.duplicate_rows_found
           /\ st.initial_columns = disk["dirty"].ncols
           /\ st.final_columns = st.initial_columns
           /\ disk["cleaned"].ncols = disk["dirty"].ncols

\* rows A, B, A, C with A = (x, 1), B = (y, 3), C = ("x ", 1): the cleaned
\* file holds A, B, C (trimmed) and one row was removed
C9_Witness ==
    /\ FirstPassDone
    /\ disk["dirty"].fields
          = << <<Str(<<"x">>), Num(2)>>, <<Str(<<"y">>), Num(6)>>,
               <<Str(<<"x">>), Num(2)>>, <<Str(<<"x", " ">>), Num(2)>> >>
    /\ disk["cleaned"].fields
          = << <<Str(<<"x">>), Num(2)>>, <<Str(<<"y">>), Num(6)>>,
               <<Str(<<"x">>), Num(2)>> >>
    /\ ret["cleaned"].stats.rows_removed = 1

\* the present texts of a column with the highest count
TopValues(col) ==
    LET vals == {col[i].str : i \in {j \in 1..Len(col) : col[j].kind = "str"}}
        count(v) == Cardinality({i \in 1..Len(col) : col[i] = Str(v)})
    IN {v \in vals : \A w \in vals : count(w) <= count(v)}

\* the most frequent text, the tie going to the one met first in the column
ModeFirstMet(col) ==
    LET top == TopValues(col)
        at(v) == CHOOSE i \in 1..Len(col) : col[i] = Str(v) /\ \A j \in 1..(i - 1) : col[j] # Str(v)
    IN CHOOSE v \in top : \A w \in top : at(v) <= at(w)

\* the most frequent text, the tie going to the smallest in sort order
ModeSmallest(col) ==
    LET top == TopValues(col)
    IN CHOOSE v \in top : \A w \in top : v = w \/ str_less(v, w)

\* the column c of the deduplicated input
DedupColumn(c) ==
    LET kept == FirstOccurrences(disk["dirty"].fields)
    IN [k \in 1..Len(kept) |-> kept[k][c]]

IsTextColumn(c) == \E k \in 1..Len(DedupColumn(c)) : DedupColumn(c)[k].kind = "str"
IsAllAbsent(c) ==
    /\ Len(DedupColumn(c)) > 0
    /\ \A k \in 1..Len(DedupColumn(c)) : isnull(DedupColumn(c)[k])

OrderStat(col, k) ==
    LET at == {i \in 1..Len(col) : col[i].kind = "num"}
    IN CHOOSE v \in {col[i].num : i \in at} :
          /\ Cardinality({i \in at : col[i].num < v}) < k
          /\ k <= Cardinality({i \in at : col[i].num <= v})

\* the cell that fills a numeric column: the median of its present numbers,
\* the mean of the two middle ones for an even count; absent when the column
\* has no present number, for which there is no median
MedianCell(col) ==
    LET n == Cardinality({i \in 1..Len(col) : col[i].kind = "num"})
    IN IF n = 0 THEN NaN
       ELSE IF n % 2 = 1 THEN Num(OrderStat(col, (n + 1) \div 2))
       ELSE Num((OrderStat(col, n \div 2) + OrderStat(col, (n \div 2) + 1)) \div 2)

\* C11: in a numeric column every absent cell becomes the median of the
\* present values of the deduplicated rows (an even count averaging the two
\* middle values), every present cell stays as it was, and so a numeric
\* column without absent cell is unchanged
C11_MedianOfDeduplicated ==
    FirstPassDone =>
        LET kept == FirstOccurrences(disk["dirty"].fields)
            out == disk["cleaned"].fields
        IN \A c \in 1..disk["dirty"].ncols : ~IsTextColumn(c) =>
              /\ Len(out) = Len(kept)
              /\ \A k \in 1..Len(kept) :
                    out[k][c] = IF isnull(kept[k][c]) THEN MedianCell(DedupColumn(c))
                                ELSE kept[k][c]

\* rows (x, 1), (x, 1), (y, 3), (y, -): the median of 1, 1, 3 is 1, that of
\* the deduplicated 1, 3 is 2, and the absent cell became 2
C11_Witness ==
    /\ FirstPassDone
    /\ disk["dirty"].fields
          = << <<Str(<<"x">>), Num(2)>>, <<Str(<<"x">>), Num(2)>>,
               <<Str(<<"y">>), Num(6)>>, <<Str(<<"y">>), NaN>> >>
    /\ disk["cleaned"].fields
          = << <<Str(<<"x">>), Num(2)>>, <<Str(<<"y">>), Num(6)>>,
               <<Str(<<"y">>), Num(4)>> >>

\* the call on this file fails: it is missing, not a file, cannot be loaded,
\* or has a True / False column with an empty field, which the trimming step
\* cannot handle
CallFails(file) ==
    \/ file.kind \in {"missing", "dir", "empty"}
    \/ \E c \in 1..file.ncols :
          /\ \E i \in 1..Len(file.fields) : file.fields[i][c].kind = "bool"
          /\ \E i \in 1..Len(file.fields) : isnull(file.fields[i][c])

\* C12: a call whose input is missing or not a file, or in which a step from
\* loading to trimming fails, returns the empty result and leaves every path,
\* the output path included, as it was; the output is written only by a call
\* in which no step failed, which returns its statistics
C12_AllOrNothing ==
    [][ \A p \in {<<"dirty", "cleaned">>, <<"cleaned", "cleaned2">>} :
           last' = p =>
              /\ ret'[p[2]].called
              /\ CallFails(disk[p[1]]) =>
                    (DOMAIN ret'[p[2]].stats = {} /\ disk' = disk)
              /\ ~CallFails(disk[p[1]]) =>
                    (DOMAIN ret'[p[2]].stats # {} /\ disk'[p[2]].kind = "csv")
              /\ disk' # disk => ~CallFails(disk[p[1]]) ]_vars

\* the trimming step failed on a table with the column True, (empty): the
\* call returned the empty result and the file already at the output path is
\* as it was
C12_Witness ==
    /\ last = <<"dirty", "cleaned">>
    /\ ret["cleaned"].called
    /\ DOMAIN ret["cleaned"].stats = {}
    /\ disk["dirty"] = CsvFile(2, << <<Bool(TRUE), Num(2)>>, <<NaN, Num(2)>> >>)
    /\ disk["cleaned"] = StaleFile

====
